---- MODULE Spec2Model ----
(***************************************************************************)
(* Verification model of the warp trading bot: the filter pipeline         *)
(* (src/filters/pool-filters.ts) and the buy / sell workflows of the Bot   *)
(* class (src/bot.ts).                                                     *)
(*                                                                         *)
(* The specifications of the module:                                       *)
(*   PipelineSpec  - one PoolFilters.execute call, stepped await by await, *)
(*                   followed by the caller's gate in Bot.buy;             *)
(*   Spec          - concurrent Bot.buy and Bot.sell invocations, one      *)
(*                   action per synchronous block between two awaits;      *)
(*   BuySpec, SellSpec, TradeSpec, RetrySpec - parts of Spec: concurrent   *)
(*                   buys, concurrent sells, one buy beside one sell, and  *)
(*                   the retry loops under every retry limit;              *)
(*   CheckSellSpec, PnlSpec - the exit decision of Bot.checkSell on drawn  *)
(*                   inputs;                                               *)
(*   PoolAgeSpec   - MaxPoolAgeFilter.execute on the pool keys of Bot.buy; *)
(*   HoldSpec      - one buy beside one sell while the clock advances,     *)
(*                   with fairness of the steps of a started workflow;     *)
(*   ListenerSpec  - the pool event handler of src/index.ts calling        *)
(*                   Bot.buy;                                              *)
(*   LiveSpec      - two buys beside one sell with fairness of the steps   *)
(*                   of every started invocation;                          *)
(*   AuthoritySpec - RenouncedFreezeFilter.execute on drawn inputs.        *)
(***************************************************************************)
EXTENDS Integers, Sequences, FiniteSets, TLC

(***************************************************************************)
(* Bounds of the model                                                     *)
(***************************************************************************)
\* largest number of filters configured in PoolFilters.filters
MaxFilters == 3
\* concurrent Bot.buy invocations
NumBuy == 2
\* concurrent Bot.sell invocations
NumSell == 2
\* distinct base mints
NumMints == 2
\* config.maxBuyRetries
MaxBuyRetries == 2
\* config.maxSellRetries
MaxSellRetries == 2
\* longest holding time of a position, in seconds
MaxHold == 3
\* largest COption tag of a decoded mint account (0 is None, 1 is Some)
MaxOption == 2

(***************************************************************************)
(* Values                                                                  *)
(***************************************************************************)
Absent == "absent"
Present == "present"
MetadataValues == {Absent, Present}

NoMsg == <<>>

\* The filter classes in the order the PoolFilters constructor pushes them.
FilterNames ==
  << "BurnFilter", "RenouncedFreezeFilter", "MutableFilter", "PoolSizeFilter",
     "NameSymbolFilter", "MaxPoolAgeFilter", "MarketCapFilter" >>

\* requiresMetadata as the constructor leaves it on each filter object.
RequiresMetadata(name) ==
  name \in {"RenouncedFreezeFilter", "MutableFilter", "NameSymbolFilter"}

\* What one filter.execute(poolKeys, metadata) call does for the pool and the
\* metadata it is given: resolve ok = true, resolve ok = false, or reject.
FilterOutcomes == {"pass", "fail", "throw"}

RECURSIVE SeqOfSet(_)
\* the ascending sequence of a set of indices (constructor order)
SeqOfSet(S) ==
  IF S = {} THEN <<>>
  ELSE LET lo == CHOOSE x \in S : \A y \in S : x <= y
       IN  <<lo>> \o SeqOfSet(S \ {lo})

\* The filter list built by the constructor when exactly the classes with
\* index in S are enabled; out[i] is the behaviour of class i on this pool.
MkFilters(S, out) ==
  LET idx == SeqOfSet(S)
  IN  [k \in 1..Len(idx) |->
         [name |-> FilterNames[idx[k]],
          requiresMetadata |-> RequiresMetadata(FilterNames[idx[k]]),
          outcome |-> out[idx[k]]]]

FilterLists ==
  { MkFilters(S, out) :
      S \in {T \in SUBSET (1..Len(FilterNames)) : Cardinality(T) <= MaxFilters},
      out \in [1..Len(FilterNames) -> FilterOutcomes] }

\* FilterResult values
PassResult == [ok |-> TRUE, message |-> NoMsg]
\* the FilterResult a filter itself returns when its predicate fails
OwnFailResult(f) == [ok |-> FALSE, message |-> <<f.name, "rejected">>]
\* the FilterResult execute synthesises when a filter throws
FaultResult(f) == [ok |-> FALSE, message |-> <<"Error in", f.name>>]

VARIABLES
  \* ---- PoolFilters.execute call --------------------------------------
  filters,      \* PoolFilters.filters
  pfPc,         \* position of the execute call
  pfArg,        \* the metadata argument of the call
  pfInternal,   \* internalMetadata
  pfIdx,        \* position of the for-of loop over this.filters
  pfLog,        \* external calls made by the call, in order
  pfResult,     \* the FilterResult returned
  pfGate,       \* what Bot.buy does with the result
  \* ---- Bot ------------------------------------------------------------
  config,         \* BotConfig
  mutexLocked,    \* this.mutex.isLocked()
  processingMint, \* this.processingMint
  buyOrders,      \* this.buyOrders
  sellOrders,     \* this.sellOrders
  buy,            \* the Bot.buy invocations: position and locals of each
  sell,           \* the Bot.sell invocations: position and locals of each
  openPosition,   \* history: last confirmed submission of the mint was a buy
  now,            \* Date.now(), in seconds
  cs,             \* one checkSell evaluation: its inputs and its decision
  pa,             \* one pool-age check: its inputs and the filter's result
  listener,       \* index.ts: poolCache and the pool event handlers in flight
  rf              \* one RenouncedFreezeFilter.execute call: its inputs and result

pfCall == <<pfPc, pfArg, pfInternal, pfIdx, pfLog, pfResult, pfGate>>
pfVars == <<filters, pfCall>>
botVars == <<config, mutexLocked, processingMint, buyOrders, sellOrders,
             buy, sell, openPosition, now, cs, pa, listener, rf>>

vars == <<pfVars, botVars>>

(***************************************************************************)
(* PoolFilters.execute                                                     *)
(***************************************************************************)
\* this.filters.some(f => f.requiresMetadata)
NeedsMetadata(fs) == \E i \in 1..Len(fs) : fs[i].requiresMetadata

ExecNeedsFetch_Always(md, fs) == NeedsMetadata(fs)
\* execute fetches metadata itself when none was passed in and a filter needs it
ExecNeedsFetch(md, fs) == md = Absent /\ NeedsMetadata(fs)

FilterOutcome_FailOpen(f, md) ==
  IF f.name = "NameSymbolFilter" /\ md = Absent THEN "pass" ELSE f.outcome
\* What filter.execute(poolKeys, metadata) does when the metadata it is
\* given is md: NameSymbolFilter returns ok = false as soon as metadata is
\* undefined; otherwise the filter behaves on the pool as drawn.
FilterOutcome(f, md) ==
  IF f.name = "NameSymbolFilter" /\ md = Absent THEN "fail" ELSE f.outcome

\* the filter f as it behaves when it is given the metadata md
OnMetadata(f, md) == [f EXCEPT !.outcome = FilterOutcome(f, md)]

InvokeOutcome_IgnoreFail(f) ==
  CASE f.outcome = "pass"  -> [kind |-> "continue", result |-> PassResult]
    [] f.outcome = "fail"  -> [kind |-> "continue", result |-> OwnFailResult(f)]
    [] f.outcome = "throw" -> [kind |-> "return", result |-> FaultResult(f)]
InvokeOutcome_ContinueAfterFault(f) ==
  CASE f.outcome = "pass"  -> [kind |-> "continue", result |-> PassResult]
    [] f.outcome = "fail"  -> [kind |-> "return", result |-> OwnFailResult(f)]
    [] f.outcome = "throw" -> [kind |-> "continue", result |-> FaultResult(f)]
InvokeOutcome_Rethrow(f) ==
  CASE f.outcome = "pass"  -> [kind |-> "continue", result |-> PassResult]
    [] f.outcome = "fail"  -> [kind |-> "return", result |-> OwnFailResult(f)]
    [] f.outcome = "throw" -> [kind |-> "throw", result |-> FaultResult(f)]
\* One iteration of the loop body: the try { await filter.execute } catch.
\* kind says how the iteration leaves: on to the next filter, return of
\* result from execute, or an exception leaving execute.
InvokeOutcome(f) ==
  CASE f.outcome = "pass"  -> [kind |-> "continue", result |-> PassResult]
    [] f.outcome = "fail"  -> [kind |-> "return", result |-> OwnFailResult(f)]
    [] f.outcome = "throw" -> [kind |-> "return", result |-> FaultResult(f)]

GateRejects_Never(res) == FALSE
\* Bot.buy: if (!filterResult.ok) return
GateRejects(res) == ~res.ok

NoResult == [ok |-> FALSE, message |-> <<"none">>]

PFIdle ==
  /\ pfPc = "idle"
  /\ pfArg = Absent
  /\ pfInternal = Absent
  /\ pfIdx = 0
  /\ pfLog = <<>>
  /\ pfResult = NoResult
  /\ pfGate = "none"

\* execute(poolKeys, metadata) up to its first await
PFCall ==
  /\ pfPc = "idle"
  /\ \E md \in MetadataValues :
       /\ pfArg' = md
       /\ pfInternal' = md
       /\ pfPc' = IF ExecNeedsFetch(md, filters) THEN "fetch" ELSE "loop"
  /\ pfIdx' = 1
  /\ UNCHANGED <<filters, pfLog, pfResult, pfGate>>
  /\ UNCHANGED botVars

\* internalMetadata = await this.fetchMetadata(poolKeys); fetchMetadata
\* catches its own errors and resolves undefined
PFFetch ==
  /\ pfPc = "fetch"
  /\ \E md \in MetadataValues : pfInternal' = md
  /\ pfLog' = Append(pfLog, [ev |-> "fetchMetadata", idx |-> 0])
  /\ pfPc' = "loop"
  /\ UNCHANGED <<filters, pfArg, pfIdx, pfResult, pfGate>>
  /\ UNCHANGED botVars

\* one iteration of for (const filter of this.filters)
PFInvoke ==
  /\ pfPc = "loop"
  /\ pfIdx <= Len(filters)
  /\ LET o == InvokeOutcome(OnMetadata(filters[pfIdx], pfInternal))
     IN  /\ pfLog' = Append(pfLog, [ev |-> "filter", idx |-> pfIdx])
         /\ CASE o.kind = "continue" ->
                   /\ pfIdx' = pfIdx + 1
                   /\ UNCHANGED <<pfPc, pfResult>>
              [] o.kind = "return" ->
                   /\ pfResult' = o.result
                   /\ pfPc' = "returned"
                   /\ UNCHANGED pfIdx
              [] o.kind = "throw" ->
                   /\ pfPc' = "threw"
                   /\ UNCHANGED <<pfIdx, pfResult>>
  /\ UNCHANGED <<filters, pfArg, pfInternal, pfGate>>
  /\ UNCHANGED botVars

\* return { ok: true } after the loop
PFAllPassed ==
  /\ pfPc = "loop"
  /\ pfIdx > Len(filters)
  /\ pfResult' = PassResult
  /\ pfPc' = "returned"
  /\ UNCHANGED <<filters, pfArg, pfInternal, pfIdx, pfLog, pfGate>>
  /\ UNCHANGED botVars

\* Bot.buy after await this.poolFilters.execute(...): the filter gate, or
\* the catch block of buy when execute threw
PFGate ==
  /\ pfPc \in {"returned", "threw"}
  /\ pfGate' = IF pfPc = "threw" THEN "error"
               ELSE IF GateRejects(pfResult) THEN "rejected" ELSE "passed"
  /\ pfPc' = "done"
  /\ UNCHANGED <<filters, pfArg, pfInternal, pfIdx, pfLog, pfResult>>
  /\ UNCHANGED botVars

(***************************************************************************)
(* Bot: state and helpers                                                  *)
(***************************************************************************)
Mints == 1..NumMints
\* baseMintStr / mint while still undefined / null
NoMint == 0
\* config.quoteMint, the mint of the wallet's quote token account
QuoteMint == NumMints + 1
BuySlots == 1..NumBuy
SellSlots == 1..NumSell

\* Date.now() when the bot starts (never zero)
StartTime == 1

\* Strings are sequences of character codes.
ToLowerChar(c) == IF c \in 65..90 THEN c + 32 ELSE c
\* String.prototype.toLowerCase
ToLower(str) == [i \in 1..Len(str) |-> ToLowerChar(str[i])]
\* String.prototype.includes
Includes(hay, needle) ==
  \E i \in 0..(Len(hay) - Len(needle)) :
    \A j \in 1..Len(needle) : hay[i + j] = needle[j]

\* tokenName when no metadata was fetched (undefined; '' after || '')
NoName == <<>>
\* "Moon Cat"
NameMoonCat == <<77, 111, 111, 110, 32, 67, 97, 116>>
\* "dog"
NameDog == <<100, 111, 103>>
\* "MOON"
KeywordMoon == <<77, 79, 79, 78>>
\* metadata.name of the token of mint m
MetadataName(m) == IF m = 1 THEN NameMoonCat ELSE NameDog

\* "MC"
SymbolMC == <<77, 67>>
\* "DOG"
SymbolDog == <<68, 79, 71>>
\* metadata.symbol of the token of mint m
MetadataSymbol(m) == IF m = 1 THEN SymbolMC ELSE SymbolDog

\* simulateSwap(poolKeys, quoteAmount, 'buy') for the pool of mint m: the
\* computed output and the output less 10 % slippage
SimulateSwap(m) == [amountOut |-> 100 * m, minAmountOut |-> 90 * m]

NoOrder ==
  [mint |-> NoMint, buyTimestamp |-> 0, quoteAmountUsed |-> 0,
   minBaseTokenAmountReceived |-> 0, tokenName |-> NoName,
   tokenSymbol |-> NoName]
\* the BuyOrderDetails stored on a confirmed buy
BuyOrderDetails(m, meta) ==
  [mint |-> m, buyTimestamp |-> now, quoteAmountUsed |-> config.quoteAmount,
   minBaseTokenAmountReceived |-> SimulateSwap(m).minAmountOut,
   tokenName |-> IF meta = Absent THEN NoName ELSE MetadataName(m),
   tokenSymbol |-> IF meta = Absent THEN NoName ELSE MetadataSymbol(m)]

TruncDiv_Floor(a, b) == a \div b
\* a / b of BN.div: the quotient truncated toward zero (b > 0)
TruncDiv(a, b) == IF a >= 0 THEN a \div b ELSE -((-a) \div b)
\* pnlRaw.mul(10000).div(cost): the PNL in hundredths of a percent;
\* pnlPercentage is this number divided by 100
PnlBps(value, cost) ==
  IF cost = 0 THEN 0 ELSE TruncDiv((value - cost) * 10000, cost)

\* sellTimedNameKeywords.find(keyword => name.toLowerCase().includes(
\* keyword.toLowerCase())): the first matching keyword, <<>> when none
KeywordMatch(name, keywords) ==
  LET hits == {i \in 1..Len(keywords) :
                 Includes(ToLower(name), ToLower(keywords[i]))}
  IN  IF hits = {} THEN <<>>
      ELSE keywords[CHOOSE i \in hits : \A j \in hits : i <= j]

NoReason == "none"

SellReason_DurationFirst(cfg, order, value, t) ==
  LET bps     == PnlBps(value, order.quoteAmountUsed)
      elapsed == t - order.buyTimestamp
  IN  IF cfg.maxSellDurationSeconds > 0 /\ elapsed >= cfg.maxSellDurationSeconds
      THEN "max_duration_reached"
      ELSE IF cfg.takeProfitPercentage > 0 /\ bps >= 100 * cfg.takeProfitPercentage
      THEN "take_profit"
      ELSE IF cfg.stopLossPercentage > 0 /\ bps <= -(100 * cfg.stopLossPercentage)
      THEN "stop_loss"
      ELSE NoReason

SellReason_KeywordFirst(cfg, order, value, t) ==
  LET bps     == PnlBps(value, order.quoteAmountUsed)
      elapsed == t - order.buyTimestamp
  IN  IF cfg.takeProfitPercentage > 0 /\ bps >= 100 * cfg.takeProfitPercentage
      THEN "take_profit"
      ELSE IF cfg.stopLossPercentage > 0 /\ bps <= -(100 * cfg.stopLossPercentage)
      THEN "stop_loss"
      ELSE IF /\ Len(cfg.sellTimedNameKeywords) > 0
              /\ cfg.sellTimedNameDurationSeconds > 0
              /\ Len(KeywordMatch(order.tokenName, cfg.sellTimedNameKeywords)) > 0
              /\ elapsed >= cfg.sellTimedNameDurationSeconds
      THEN "timed_keyword_match"
      ELSE IF cfg.maxSellDurationSeconds > 0 /\ elapsed >= cfg.maxSellDurationSeconds
      THEN "max_duration_reached"
      ELSE NoReason
\* The if / else-if chain of checkSell (lines 592-622): the exit reason
\* for a position, given the simulated quote value and the current time.
SellReason(cfg, order, value, t) ==
  LET bps     == PnlBps(value, order.quoteAmountUsed)
      elapsed == t - order.buyTimestamp
  IN  IF cfg.takeProfitPercentage > 0 /\ bps >= 100 * cfg.takeProfitPercentage
      THEN "take_profit"
      ELSE IF cfg.stopLossPercentage > 0 /\ bps <= -(100 * cfg.stopLossPercentage)
      THEN "stop_loss"
      ELSE IF cfg.maxSellDurationSeconds > 0 /\ order.buyTimestamp # 0
      THEN IF elapsed >= cfg.maxSellDurationSeconds
           THEN "max_duration_reached" ELSE NoReason
      ELSE IF /\ Len(cfg.sellTimedNameKeywords) > 0
              /\ cfg.sellTimedNameDurationSeconds > 0
              /\ order.buyTimestamp # 0
      THEN IF /\ Len(KeywordMatch(order.tokenName, cfg.sellTimedNameKeywords)) > 0
              /\ elapsed >= cfg.sellTimedNameDurationSeconds
           THEN "timed_keyword_match" ELSE NoReason
      ELSE NoReason

OrderAfterCheck_Restamped(order, t) ==
  IF order = NoOrder THEN order ELSE [order EXCEPT !.buyTimestamp = t]
\* the buyOrder after an evaluation at time t: checkSell only reads it
OrderAfterCheck(order, t) == order

SellInitiated_Always(reason) == TRUE
\* if (sellReason) { ... await this.sellOrder(...) } (lines 625-635)
SellInitiated(reason) == reason # NoReason

\* checkSell as a whole: no reason without a buy order (558-562) or with a
\* zero cost basis (563-566), else the exit criteria
CheckSellReason(cfg, order, value, t) ==
  IF order = NoOrder \/ order.quoteAmountUsed = 0
  THEN NoReason
  ELSE SellReason(cfg, order, value, t)

\* the quote values a sell simulation (Liquidity.computeAmountOut) reports
QuoteValues == {80, 100, 200}

\* the result of txExecutor.executeAndConfirm:
\* { confirmed: boolean; signature?: string; error?: any }
ExecResults == [confirmed : BOOLEAN, signature : BOOLEAN]

\* the filter lists the Bot specification runs with: one without and one
\* with a filter that requires metadata
BotFilterLists ==
  { MkFilters({4}, [i \in 1..Len(FilterNames) |-> "pass"]),
    MkFilters({4, 5}, [i \in 1..Len(FilterNames) |-> "pass"]) }

\* every FilterResult execute can return for a filter list
PipelineResults(fs) ==
  {PassResult} \cup {OwnFailResult(fs[i]) : i \in 1..Len(fs)}
               \cup {FaultResult(fs[i]) : i \in 1..Len(fs)}

LoopContinues_OneMore(i, n) == i <= n
\* the condition of for (let i = 0; i < maxRetries; i++)
LoopContinues(i, n) == i < n

\* let latestBlockhash = null
NoBlockhash == 0
FreshBlockhash_Hoisted(i) == 1
\* the reference returned by the getLatestBlockhash call of iteration i of
\* a retry loop; a reference is identified with the call that returned it
FreshBlockhash(i) == i + 1

\* Locals of an invocation in flight: bh is latestBlockhash, sent the
\* blockhash of every transaction handed to txExecutor.executeAndConfirm so
\* far, dup whether buyOrders[mint] existed when the pool was resolved,
\* order the buyOrder read by checkSell, reason its sellReason.
BuyIdle ==
  [pc |-> "idle", mint |-> NoMint, meta |-> Absent, fetches |-> 0, try |-> 0,
   acq |-> FALSE, rel |-> 0, out |-> "none", bh |-> NoBlockhash, sent |-> <<>>,
   dup |-> FALSE, ok |-> TRUE, alerts |-> {}]

SellIdle ==
  [pc |-> "idle", mint |-> NoMint, set |-> FALSE, try |-> 0, out |-> "none",
   bh |-> NoBlockhash, sent |-> <<>>, order |-> NoOrder, reason |-> NoReason]

BotIdle ==
  /\ mutexLocked = FALSE
  /\ processingMint = {}
  /\ buyOrders = [m \in Mints |-> NoOrder]
  /\ sellOrders = [m \in Mints \cup {QuoteMint} |-> FALSE]
  /\ buy = [p \in BuySlots |-> BuyIdle]
  /\ sell = [q \in SellSlots |-> SellIdle]
  /\ openPosition = [m \in Mints |-> FALSE]
  /\ now = StartTime

(***************************************************************************)
(* Bot.buy                                                                 *)
(***************************************************************************)
BuyFinally_NoRelease(m, locked, pm) ==
  [locked |-> locked, pm |-> pm \ {m}, released |-> FALSE]

\* The finally block of buy. m is baseMintStr (NoMint when undefined);
\* released says whether this.mutex.release() was called. Mutex.release()
\* unlocks whoever holds the lock and does nothing on a free mutex.
BuyFinally(m, locked, pm) ==
  IF m # NoMint
  THEN [locked   |-> IF config.oneTokenAtATime /\ m \in pm THEN FALSE ELSE locked,
        pm       |-> pm \ {m},
        released |-> config.oneTokenAtATime /\ m \in pm]
  ELSE [locked   |-> IF config.oneTokenAtATime /\ locked THEN FALSE ELSE locked,
        pm       |-> pm,
        released |-> config.oneTokenAtATime /\ locked]

\* buy leaves through its finally block and returns to its caller
ExitPc_Rethrow(out) ==
  IF out \in {"resolveFailed", "error"} THEN "threw" ELSE "returned"
\* how an invocation ends: the catch blocks of buy (443-444) and of sell
\* (539-541) log the exception and do not rethrow
ExitPc(out) == "returned"

\* let buyConfirmed = false (line 337); no statement of buy assigns it
BuyConfirmedFlag == FALSE

\* the Telegram alerts of an invocation that leaves buy with outcome out:
\* the confirmed-buy alert is sent inside the loop before the break
\* (400-404), the buy-failed alert after the loop under
\* if (!buyConfirmed && this.config.autoBuy) (437-441)
BuyAlerts(out, cfg) ==
  (IF out = "confirmed" /\ cfg.autoBuy THEN {"confirmedBuy"} ELSE {})
  \cup (IF out \in {"confirmed", "failed"} /\ ~BuyConfirmedFlag /\ cfg.autoBuy
        THEN {"buyFailed"} ELSE {})

\* buy leaves through its finally block and returns to its caller
BuyExit(p, m, pm, out) ==
  LET f == BuyFinally(m, mutexLocked, pm)
  IN  /\ buy' = [buy EXCEPT ![p] =
                   [BuyIdle EXCEPT !.pc = ExitPc(out), !.mint = m, !.out = out,
                                   !.acq = buy[p].acq,
                                   !.rel = IF f.released THEN 1 ELSE 0,
                                   !.alerts = BuyAlerts(out, config)]]
      /\ mutexLocked' = f.locked
      /\ processingMint' = f.pm

\* buy suspends at its next await
BuyGoto(p, pcv) ==
  /\ buy' = [buy EXCEPT ![p].pc = pcv]
  /\ UNCHANGED <<mutexLocked, processingMint>>

\* the mints listed in snipe-list.txt: the first mint is listed, the others
\* are not
SnipeList == {1}
\* this.snipeListCache.isInList(baseMintStr)
IsInList(m) == m \in SnipeList

SnipeListSkips_Never(cfg, m) == FALSE
\* if (this.config.useSnipeList && !this.snipeListCache?.isInList(...)) return
SnipeListSkips(cfg, m) == cfg.useSnipeList /\ ~IsInList(m)

\* lines 229-233: the market ids of the fetched pool info are checked and
\* SerumMarket.load is awaited
BuyToMarket(p, m, pm) ==
  \E hasMarket \in BOOLEAN :
    IF ~hasMarket
    THEN BuyExit(p, m, pm, "error")
    ELSE /\ buy' = [buy EXCEPT ![p].pc = "marketLoad", ![p].mint = m,
                               ![p].dup = buyOrders[m] # NoOrder]
         /\ processingMint' = pm
         /\ UNCHANGED mutexLocked

\* public async buy(accountId): called by the pool listener
BuyCall(p) ==
  /\ buy[p].pc \in {"idle", "returned"}
  /\ buy' = [buy EXCEPT ![p] = [BuyIdle EXCEPT !.pc = "fetchInfo"]]

\* a call of buy from outside the modelled listener
BuyStart(p) ==
  /\ BuyCall(p)
  /\ UNCHANGED <<pfCall, filters, config, now, cs, pa, listener, rf, mutexLocked, processingMint, buyOrders,
                 sellOrders, sell, openPosition>>

\* await Liquidity.fetchInfo resolves; the checks up to mutex.acquire()
MutexSkips_Never(cfg, locked) == FALSE
\* if (this.config.oneTokenAtATime && this.mutex.isLocked()) return
MutexSkips(cfg, locked) == cfg.oneTokenAtATime /\ locked

BuyFetchInfo(p) ==
  /\ buy[p].pc = "fetchInfo"
  /\ \/ BuyExit(p, NoMint, processingMint, "resolveFailed")
     \/ \E m \in Mints :
          IF MutexSkips(config, mutexLocked)
          THEN BuyExit(p, m, processingMint, "skippedLocked")
          ELSE IF config.oneTokenAtATime /\ buyOrders[m] # NoOrder
          THEN BuyExit(p, m, processingMint, "skippedBought")
          ELSE IF config.oneTokenAtATime
          THEN /\ mutexLocked' = TRUE
               /\ buy' = [buy EXCEPT ![p].pc = "acquire", ![p].mint = m,
                                     ![p].acq = TRUE, ![p].dup = FALSE]
               /\ UNCHANGED processingMint
          ELSE BuyToMarket(p, m, processingMint)
  /\ UNCHANGED <<pfCall, filters, config, now, cs, pa, listener, rf, buyOrders, sellOrders, sell, openPosition>>

\* await this.mutex.acquire() resolves; this.processingMint.add(baseMintStr)
BuyAcquired(p) ==
  /\ buy[p].pc = "acquire"
  /\ BuyToMarket(p, buy[p].mint, processingMint \cup {buy[p].mint})
  /\ UNCHANGED <<pfCall, filters, config, now, cs, pa, listener, rf, buyOrders, sellOrders, sell, openPosition>>

\* await SerumMarket.load resolves; pool keys, snipe list check, start of
\* the filter gate
BuyMarketLoad(p) ==
  /\ buy[p].pc = "marketLoad"
  /\ \E r \in {"throw", "ok"} :
       IF r = "throw"
       THEN BuyExit(p, buy[p].mint, processingMint, "error")
       ELSE IF SnipeListSkips(config, buy[p].mint)
       THEN BuyExit(p, buy[p].mint, processingMint, "notInSnipeList")
       ELSE IF NeedsMetadata(filters)
       THEN BuyGoto(p, "fetchMetadata")
       ELSE IF ExecNeedsFetch(Absent, filters)
       THEN BuyGoto(p, "execFetch")
       ELSE BuyGoto(p, "filters")
  /\ UNCHANGED <<pfCall, filters, config, now, cs, pa, listener, rf, buyOrders, sellOrders, sell, openPosition>>

\* metadata = await this.poolFilters.fetchMetadata(poolKeys) resolves, then
\* execute(poolKeys, metadata) runs up to its first await
BuyFetchMetadata(p) ==
  /\ buy[p].pc = "fetchMetadata"
  /\ \E md \in MetadataValues :
       buy' = [buy EXCEPT ![p].meta = md,
                          ![p].fetches = @ + 1,
                          ![p].pc = IF ExecNeedsFetch(md, filters)
                                    THEN "execFetch" ELSE "filters"]
  /\ UNCHANGED <<pfCall, filters, config, now, cs, pa, listener, rf, mutexLocked, processingMint, buyOrders,
                 sellOrders, sell, openPosition>>

\* inside execute: internalMetadata = await this.fetchMetadata(poolKeys)
BuyExecFetch(p) ==
  /\ buy[p].pc = "execFetch"
  /\ buy' = [buy EXCEPT ![p].fetches = @ + 1, ![p].pc = "filters"]
  /\ UNCHANGED <<pfCall, filters, config, now, cs, pa, listener, rf, mutexLocked, processingMint, buyOrders,
                 sellOrders, sell, openPosition>>

MonitorOnly_Never(cfg) == FALSE
\* if (!this.config.autoBuy) return
MonitorOnly(cfg) == ~cfg.autoBuy

\* execute runs its filters and resolves; the filter gate and the AUTO_BUY
\* check of buy
BuyFilters(p) ==
  /\ buy[p].pc = "filters"
  /\ \E res \in PipelineResults(filters) :
       IF GateRejects(res)
       THEN BuyExit(p, buy[p].mint, processingMint, "filtered")
       ELSE IF MonitorOnly(config)
       THEN BuyExit(p, buy[p].mint, processingMint, "monitorOnly")
       ELSE /\ buy' = [buy EXCEPT ![p].pc = "ata", ![p].ok = res.ok]
            /\ UNCHANGED <<mutexLocked, processingMint>>
  /\ UNCHANGED <<pfCall, filters, config, now, cs, pa, listener, rf, buyOrders, sellOrders, sell, openPosition>>

\* the two getOrCreateAssociatedTokenAccount calls and the autoBuyDelay sleep
BuyAta(p) ==
  /\ buy[p].pc = "ata"
  /\ \E r \in {"throw", "ok"} :
       IF r = "throw"
       THEN BuyExit(p, buy[p].mint, processingMint, "error")
       ELSE BuyGoto(p, "simulate")
  /\ UNCHANGED <<pfCall, filters, config, now, cs, pa, listener, rf, buyOrders, sellOrders, sell, openPosition>>

\* the head of for (let i = 0; i < maxBuyRetries; i++) and what follows the
\* loop when it ends without a break
BuyLoopFrom(p, rec, i) ==
  IF LoopContinues(i, config.maxBuyRetries)
  THEN /\ buy' = [buy EXCEPT ![p] =
                    [rec EXCEPT !.pc = "blockhash", !.try = i, !.bh = NoBlockhash]]
       /\ UNCHANGED <<mutexLocked, processingMint>>
  ELSE BuyExit(p, rec.mint, processingMint, "failed")

BuyLoop(p, i) == BuyLoopFrom(p, buy[p], i)

\* if (!maxPoolSizeRaw.isZero() && simulatedAmountOut.raw.gt(maxPoolSizeRaw))
\* return, on the outcome r of the simulation
ExceedsMaxPoolSize(r) == r = "exceeds"

\* await this.simulateSwap resolves; the maxPoolSize cap; the loop is entered
BuySimulate(p) ==
  /\ buy[p].pc = "simulate"
  /\ \E r \in {"throw", "exceeds", "ok"} :
       IF r = "throw"
       THEN BuyExit(p, buy[p].mint, processingMint, "error")
       ELSE IF ExceedsMaxPoolSize(r)
       THEN BuyExit(p, buy[p].mint, processingMint, "abandoned")
       ELSE BuyLoopFrom(p, [buy[p] EXCEPT !.ok = @ /\ r = "ok"], 0)
  /\ UNCHANGED <<pfCall, filters, config, now, cs, pa, listener, rf, buyOrders, sellOrders, sell, openPosition>>

\* await this.connection.getLatestBlockhash() resolves or rejects
BuyBlockhash(p) ==
  /\ buy[p].pc = "blockhash"
  /\ \E r \in {"throw", "ok"} :
       IF r = "throw"
       THEN BuyGoto(p, "sleep")
       ELSE /\ buy' = [buy EXCEPT ![p].pc = "swap",
                                  ![p].bh = FreshBlockhash(buy[p].try)]
            /\ UNCHANGED <<mutexLocked, processingMint>>
  /\ UNCHANGED <<pfCall, filters, config, now, cs, pa, listener, rf, buyOrders, sellOrders, sell, openPosition>>

\* the invocation's record once swap has handed its transaction, built on
\* latestBlockhash, to txExecutor.executeAndConfirm
Submitted(rec) == [rec EXCEPT !.sent = Append(@, rec.bh)]

\* await this.swap(...) resolves or rejects: swap throws before it submits
\* (Liquidity.fetchInfo), or submits and executeAndConfirm throws or resolves
BuySwap(p) ==
  /\ buy[p].pc = "swap"
  /\ \/ /\ BuyGoto(p, "sleep")
        /\ UNCHANGED <<buyOrders, openPosition>>
     \/ /\ buy' = [buy EXCEPT ![p] = [Submitted(buy[p]) EXCEPT !.pc = "sleep"]]
        /\ UNCHANGED <<mutexLocked, processingMint, buyOrders, openPosition>>
     \/ \E r \in ExecResults :
          IF ~r.confirmed
          THEN /\ BuyLoopFrom(p, Submitted(buy[p]), buy[p].try + 1)
               /\ UNCHANGED <<buyOrders, openPosition>>
          ELSE /\ buyOrders' = [buyOrders EXCEPT ![buy[p].mint] =
                                  BuyOrderDetails(buy[p].mint, buy[p].meta)]
               /\ openPosition' = [openPosition EXCEPT ![buy[p].mint] = TRUE]
               /\ BuyExit(p, buy[p].mint, processingMint, "confirmed")
  /\ UNCHANGED <<pfCall, filters, config, now, cs, pa, listener, rf, sellOrders, sell>>

\* await sleep(500) in the catch of a retry iteration
BuySleep(p) ==
  /\ buy[p].pc = "sleep"
  /\ BuyLoop(p, buy[p].try + 1)
  /\ UNCHANGED <<pfCall, filters, config, now, cs, pa, listener, rf, buyOrders, sellOrders, sell, openPosition>>

(***************************************************************************)
(* Bot.sell, Bot.checkSell, Bot.sellOrder                                  *)
(***************************************************************************)
SellFinally_KeepFlag(m, so) == so
\* the finally block of sell: if (mint && this.sellOrders[mint]) delete
SellFinally(m, so) ==
  IF m # NoMint /\ so[m] THEN [so EXCEPT ![m] = FALSE] ELSE so

\* delete this.sellOrders[mint]
DeleteFlag(m, so) == [so EXCEPT ![m] = FALSE]

\* the catch block of sell: if (mint) delete this.sellOrders[mint]
SellCatch(m, so) == IF m # NoMint THEN DeleteFlag(m, so) ELSE so

\* sell leaves through its finally block and returns to its caller; so is
\* this.sellOrders as the try / catch blocks left it
SellExit(q, m, so, out) ==
  /\ sell' = [sell EXCEPT ![q] =
                [SellIdle EXCEPT !.pc = ExitPc(out), !.mint = m, !.out = out,
                                 !.set = sell[q].set]]
  /\ sellOrders' = SellFinally(m, so)

SellGoto(q, pcv) ==
  /\ sell' = [sell EXCEPT ![q].pc = pcv]
  /\ UNCHANGED sellOrders

\* the end of sellOrder (the flag is deleted whatever the outcome), back
\* through checkSell into the finally of sell
SellOrderExit(q, so, out) ==
  SellExit(q, sell[q].mint, DeleteFlag(sell[q].mint, so), out)

PositionsAfterSell_AnyResult(r, m, bo) == [bo EXCEPT ![m] = NoOrder]
\* this.buyOrders after a sell result: the entry is deleted only inside
\* if (result.confirmed && result.signature)
PositionsAfterSell(r, m, bo) ==
  IF r.confirmed /\ r.signature THEN [bo EXCEPT ![m] = NoOrder] ELSE bo

\* the head of for (let i = 0; i < maxSellRetries; i++) in sellOrder
SellLoopFrom(q, rec, i, so) ==
  IF LoopContinues(i, config.maxSellRetries)
  THEN /\ sell' = [sell EXCEPT ![q] =
                     [rec EXCEPT !.pc = "blockhash", !.try = i, !.bh = NoBlockhash]]
       /\ sellOrders' = so
  ELSE SellOrderExit(q, so, "failed")

SellLoop(q, i, so) == SellLoopFrom(q, sell[q], i, so)

\* public async sell(tokenAccountPubkey): called by the wallet listener
SellStart(q) ==
  /\ sell[q].pc \in {"idle", "returned"}
  /\ sell' = [sell EXCEPT ![q] = [SellIdle EXCEPT !.pc = "getAccount"]]
  /\ UNCHANGED <<pfCall, filters, config, now, cs, pa, listener, rf, mutexLocked, processingMint, buyOrders,
                 sellOrders, buy, openPosition>>

\* await getAccount resolves or rejects; quote account, zero balance and
\* in-flight checks; the flag is set
SellGetAccount(q) ==
  /\ sell[q].pc = "getAccount"
  /\ \/ SellExit(q, NoMint, SellCatch(NoMint, sellOrders), "error")
     \/ SellExit(q, NoMint, sellOrders, "noAccount")
     \/ SellExit(q, QuoteMint, sellOrders, "quoteAccount")
     \/ \E m \in Mints, balance \in {"zero", "positive"} :
          IF balance = "zero"
          THEN SellExit(q, m, sellOrders, "zeroBalance")
          ELSE IF sellOrders[m]
          THEN SellExit(q, m, sellOrders, "skipped")
          ELSE /\ sellOrders' = [sellOrders EXCEPT ![m] = TRUE]
               /\ sell' = [sell EXCEPT ![q].pc = "poolGet", ![q].mint = m,
                                       ![q].set = TRUE]
  /\ UNCHANGED <<pfCall, filters, config, now, cs, pa, listener, rf, mutexLocked, processingMint, buyOrders,
                 buy, openPosition>>

\* the autoSellDelay sleep and await this.poolStorage.get(mint)
SellPoolGet(q) ==
  /\ sell[q].pc = "poolGet"
  /\ \E r \in {"throw", "missing", "ok"} :
       CASE r = "throw" ->
              SellExit(q, sell[q].mint, SellCatch(sell[q].mint, sellOrders), "error")
         [] r = "missing" ->
              SellExit(q, sell[q].mint, DeleteFlag(sell[q].mint, sellOrders), "noPool")
         [] r = "ok" -> SellGoto(q, "marketLoad")
  /\ UNCHANGED <<pfCall, filters, config, now, cs, pa, listener, rf, mutexLocked, processingMint, buyOrders,
                 buy, openPosition>>

\* await SerumMarket.load resolves or rejects; checkSell up to its await
SellMarketLoad(q) ==
  /\ sell[q].pc = "marketLoad"
  /\ \E r \in {"throw", "ok"} :
       IF r = "throw"
       THEN SellExit(q, sell[q].mint, SellCatch(sell[q].mint, sellOrders), "error")
       ELSE IF buyOrders[sell[q].mint] = NoOrder
       THEN SellExit(q, sell[q].mint, sellOrders, "noBuyOrder")
       ELSE IF buyOrders[sell[q].mint].quoteAmountUsed = 0
       THEN SellExit(q, sell[q].mint, sellOrders, "zeroCost")
       ELSE /\ sell' = [sell EXCEPT ![q].pc = "checkSell",
                                    ![q].order = buyOrders[sell[q].mint]]
            /\ UNCHANGED sellOrders
  /\ UNCHANGED <<pfCall, filters, config, now, cs, pa, listener, rf, mutexLocked, processingMint, buyOrders,
                 buy, openPosition>>

\* checkSell: await Liquidity.fetchInfo resolves or rejects, the exit
\* reason is determined, sellOrder is entered
SellCheck(q) ==
  /\ sell[q].pc = "checkSell"
  /\ \/ SellExit(q, sell[q].mint, sellOrders, "checkError")
     \/ \E value \in QuoteValues :
          LET reason == CheckSellReason(config, sell[q].order, value, now)
              rec    == [sell[q] EXCEPT !.order = NoOrder, !.reason = reason]
          IN  IF ~SellInitiated(reason)
              THEN SellExit(q, rec.mint, sellOrders, "noReason")
              ELSE SellLoopFrom(q, rec, 0, [sellOrders EXCEPT ![rec.mint] = TRUE])
  /\ UNCHANGED <<pfCall, filters, config, now, cs, pa, listener, rf, mutexLocked, processingMint, buyOrders,
                 buy, openPosition>>

\* sellOrder: await getLatestBlockhash and getAssociatedTokenAddress
SellBlockhash(q) ==
  /\ sell[q].pc = "blockhash"
  /\ \E r \in {"throw", "ok"} :
       IF r = "throw"
       THEN SellGoto(q, "sleep")
       ELSE /\ sell' = [sell EXCEPT ![q].pc = "swap",
                                    ![q].bh = FreshBlockhash(sell[q].try)]
            /\ UNCHANGED sellOrders
  /\ UNCHANGED <<pfCall, filters, config, now, cs, pa, listener, rf, mutexLocked, processingMint, buyOrders,
                 buy, openPosition>>

\* sellOrder: await this.swap(...) resolves or rejects
SellSwap(q) ==
  /\ sell[q].pc = "swap"
  /\ \/ /\ SellGoto(q, "sleep")
        /\ UNCHANGED <<buyOrders, openPosition>>
     \/ /\ sell' = [sell EXCEPT ![q] = [Submitted(sell[q]) EXCEPT !.pc = "sleep"]]
        /\ UNCHANGED <<sellOrders, buyOrders, openPosition>>
     \/ \E r \in ExecResults :
          /\ openPosition' = IF r.confirmed
                             THEN [openPosition EXCEPT ![sell[q].mint] = FALSE]
                             ELSE openPosition
          /\ buyOrders' = PositionsAfterSell(r, sell[q].mint, buyOrders)
          /\ IF r.confirmed /\ r.signature
             THEN SellOrderExit(q, sellOrders, "confirmed")
             ELSE SellLoopFrom(q, Submitted(sell[q]), sell[q].try + 1, sellOrders)
  /\ UNCHANGED <<pfCall, filters, config, now, cs, pa, listener, rf, mutexLocked, processingMint, buy>>

\* sellOrder: await sleep(500) in the catch of a retry iteration
SellSleep(q) ==
  /\ sell[q].pc = "sleep"
  /\ SellLoop(q, sell[q].try + 1, sellOrders)
  /\ UNCHANGED <<pfCall, filters, config, now, cs, pa, listener, rf, mutexLocked, processingMint, buyOrders,
                 buy, openPosition>>

(***************************************************************************)
(* Specifications                                                          *)
(***************************************************************************)
\* a BotConfig (lines 69-106), the fields the workflows branch on
DefaultConfig ==
  [oneTokenAtATime |-> FALSE, useSnipeList |-> FALSE, autoBuy |-> TRUE,
   maxBuyRetries |-> MaxBuyRetries, maxSellRetries |-> MaxSellRetries,
   quoteAmount |-> 100,
   takeProfitPercentage |-> 100, stopLossPercentage |-> 0,
   maxSellDurationSeconds |-> 0,
   sellTimedNameKeywords |-> <<>>, sellTimedNameDurationSeconds |-> 0]

Configs ==
  {[DefaultConfig EXCEPT !.oneTokenAtATime = a, !.useSnipeList = b, !.autoBuy = c] :
     a \in BOOLEAN, b \in BOOLEAN, c \in BOOLEAN}

\* fetchedPoolInfo.poolOpenTime when the fetched info has no such field;
\* a BN value is its number of seconds
NoOpenTime == -1

\* poolKeys.poolOpenTime as Bot.buy builds it: the fetched value when it is
\* a BN, else new BN(0)
PoolKeysOpenTime(fetched) == IF fetched # NoOpenTime THEN fetched ELSE 0

\* MaxPoolAgeFilter.execute: passes when poolKeys.poolOpenTime is falsy
\* (undefined; a BN object, new BN(0) included, is truthy), fails when the
\* age exceeds maxAgeSeconds
MaxPoolAgeExecute(openTime, t, maxAge) ==
  IF openTime = NoOpenTime THEN "pass"
  ELSE IF t - openTime > maxAge THEN "fail" ELSE "pass"

\* runTimestamp = Math.floor(new Date().getTime() / 1000)
RunTimestamp == StartTime

\* a pool event handler that is not running
HandlerIdle == [pc |-> "idle", mint |-> NoMint, open |-> 0, exists |-> FALSE]

\* the pool cache is empty and no pool event is being handled
ListenerIdle == [cache |-> {}, h |-> [k \in BuySlots |-> HandlerIdle]]

PoolEventBuys_NotStrict(exists, open) == ~exists /\ open >= RunTimestamp
\* if (!exists && poolOpenTime > runTimestamp)
PoolEventBuys(exists, open) == ~exists /\ open > RunTimestamp

\* the COption tags a decoded mint account can carry for its mint and its
\* freeze authority: 0 is None, anything else an authority
AuthorityOptions == 0..MaxOption

\* the outcomes of connection.getAccountInfo(baseMint) and
\* MintLayout.decode that leave no decoded mint account: the call rejects,
\* there is no account data, the data cannot be decoded
NoMintAccount == {"rejects", "noData", "undecodable"}

\* what getAccountInfo and MintLayout.decode yield: one of the failures, or
\* the decoded mint account (the tags are read only when fetch is "ok")
MintAccounts ==
  [fetch : NoMintAccount, mintAuthorityOption : {0}, freezeAuthorityOption : {0}]
  \cup [fetch : {"ok"}, mintAuthorityOption : AuthorityOptions,
        freezeAuthorityOption : AuthorityOptions]

RenouncedFreezeExecute_Coupled(checkRenounced, checkFreezable, account) ==
  IF account.fetch \in NoMintAccount
  THEN [ok |-> FALSE, threw |-> FALSE]
  ELSE [ok |-> (checkRenounced \/ checkFreezable) =>
                 (account.mintAuthorityOption = 0
                  /\ account.freezeAuthorityOption = 0),
        threw |-> FALSE]
\* RenouncedFreezeFilter.execute: the FilterResult's ok, and whether the
\* call threw instead of returning
RenouncedFreezeExecute(checkRenounced, checkFreezable, account) ==
  IF account.fetch \in NoMintAccount
  THEN [ok |-> FALSE, threw |-> FALSE]
  ELSE LET isRenounced == ~checkRenounced \/ account.mintAuthorityOption = 0
           isFreezable == checkFreezable /\ account.freezeAuthorityOption # 0
       IN  [ok |-> isRenounced /\ ~isFreezable, threw |-> FALSE]

\* no authority check on drawn inputs is under way
RFIdle ==
  [pc |-> "idle", checkRenounced |-> FALSE, checkFreezable |-> FALSE,
   mint |-> NoMint, account |-> [fetch |-> "noData", mintAuthorityOption |-> 0,
                freezeAuthorityOption |-> 0],
   result |-> [ok |-> FALSE, threw |-> FALSE]]

\* no pool-age check on drawn inputs is under way
PAIdle == [pc |-> "idle", fetched |-> NoOpenTime, time |-> 0, maxAge |-> 0,
           result |-> "none"]

\* no checkSell evaluation on drawn inputs is under way
CSIdle ==
  [pc |-> "idle", cfg |-> DefaultConfig, order |-> NoOrder, value |-> 0,
   time |-> 0, reason |-> NoReason, initiated |-> FALSE, again |-> NoReason]

Init ==
  /\ filters \in BotFilterLists
  /\ config \in Configs
  /\ BotIdle
  /\ PFIdle
  /\ cs = CSIdle
  /\ pa = PAIdle
  /\ listener = ListenerIdle
  /\ rf = RFIdle

\* one step of the Bot.buy invocation in slot p
BuyStep(p) ==
  \/ BuyStart(p)
  \/ BuyFetchInfo(p)
  \/ BuyAcquired(p)
  \/ BuyMarketLoad(p)
  \/ BuyFetchMetadata(p)
  \/ BuyExecFetch(p)
  \/ BuyFilters(p)
  \/ BuyAta(p)
  \/ BuySimulate(p)
  \/ BuyBlockhash(p)
  \/ BuySwap(p)
  \/ BuySleep(p)

\* one step of the Bot.sell invocation in slot q
SellStep(q) ==
  \/ SellStart(q)
  \/ SellGetAccount(q)
  \/ SellPoolGet(q)
  \/ SellMarketLoad(q)
  \/ SellCheck(q)
  \/ SellBlockhash(q)
  \/ SellSwap(q)
  \/ SellSleep(q)

\* The whole program: every pool event and every wallet event starts an
\* invocation that runs concurrently with the others.
Next ==
  \/ \E p \in BuySlots : BuyStep(p)
  \/ \E q \in SellSlots : SellStep(q)

Spec == Init /\ [][Next]_vars

\* Concurrent acquisitions alone.
BuyNext == \E p \in BuySlots : BuyStep(p)

BuySpec == Init /\ [][BuyNext]_vars

\* Concurrent disposals, with one acquisition workflow opening positions.
SellInit ==
  /\ filters = MkFilters({4, 5}, [i \in 1..Len(FilterNames) |-> "pass"])
  /\ config = [DefaultConfig EXCEPT !.oneTokenAtATime = TRUE,
                                    !.maxBuyRetries = 1, !.maxSellRetries = 1]
  /\ BotIdle
  /\ PFIdle
  /\ cs = CSIdle
  /\ pa = PAIdle
  /\ listener = ListenerIdle
  /\ rf = RFIdle

SellNext ==
  \/ BuyStep(1)
  \/ \E q \in SellSlots : SellStep(q)

SellSpec == SellInit /\ [][SellNext]_vars

\* One acquisition workflow and one disposal workflow side by side.
TradeNext ==
  \/ BuyStep(1)
  \/ SellStep(1)

TradeSpec == Init /\ [][TradeNext]_vars

PipelineInit ==
  /\ filters \in FilterLists
  /\ PFIdle
  /\ config = DefaultConfig
  /\ BotIdle
  /\ cs = CSIdle
  /\ pa = PAIdle
  /\ listener = ListenerIdle
  /\ rf = RFIdle

PipelineNext ==
  \/ PFCall
  \/ PFFetch
  \/ PFInvoke
  \/ PFAllPassed
  \/ PFGate

PipelineSpec == PipelineInit /\ [][PipelineNext]_vars

\* The retry loops under every retry limit, zero included: one acquisition
\* and one disposal workflow.
RetryInit ==
  /\ filters = MkFilters({4, 5}, [i \in 1..Len(FilterNames) |-> "pass"])
  /\ config \in {[DefaultConfig EXCEPT !.oneTokenAtATime = TRUE,
                                       !.maxBuyRetries = b, !.maxSellRetries = c] :
                    b \in 0..MaxBuyRetries, c \in 0..MaxSellRetries}
  /\ BotIdle
  /\ PFIdle
  /\ cs = CSIdle
  /\ pa = PAIdle
  /\ listener = ListenerIdle
  /\ rf = RFIdle

RetrySpec == RetryInit /\ [][TradeNext]_vars

\* checkSell as a function of its inputs: the configuration, the recorded
\* buy order, the simulated quote value and the clock.
ExitConfigs ==
  {[DefaultConfig EXCEPT !.takeProfitPercentage = tp, !.stopLossPercentage = sl,
                         !.maxSellDurationSeconds = md,
                         !.sellTimedNameKeywords = kw,
                         !.sellTimedNameDurationSeconds = kd] :
     tp \in {0, 100}, sl \in {0, 20}, md \in {0, MaxHold - 1},
     kw \in {<<>>, <<KeywordMoon>>}, kd \in {0, 1}}

CheckOrders ==
  {NoOrder} \cup
  {[mint |-> 1, buyTimestamp |-> StartTime, quoteAmountUsed |-> c,
    minBaseTokenAmountReceived |-> SimulateSwap(1).minAmountOut,
    tokenName |-> n, tokenSymbol |-> NoName] :
     c \in {0, 100}, n \in {NoName, NameMoonCat, NameDog}}

CheckValues == {0, 80, 81, 100, 199, 200, 250}

CheckSellInit ==
  /\ filters = MkFilters({4}, [i \in 1..Len(FilterNames) |-> "pass"])
  /\ config = DefaultConfig
  /\ BotIdle
  /\ PFIdle
  /\ cs \in {[CSIdle EXCEPT !.pc = "called", !.cfg = c, !.order = o,
                             !.value = v, !.time = t] :
               c \in ExitConfigs, o \in CheckOrders, v \in CheckValues,
               t \in StartTime..(StartTime + MaxHold)}
  /\ pa = PAIdle
  /\ listener = ListenerIdle
  /\ rf = RFIdle

\* private async checkSell(poolKeys, account) runs on the drawn inputs
CheckSell ==
  /\ cs.pc = "called"
  /\ LET reason == CheckSellReason(cs.cfg, cs.order, cs.value, cs.time)
     IN  cs' = [cs EXCEPT !.pc = "done", !.reason = reason,
                          !.initiated = SellInitiated(reason),
                          !.order = OrderAfterCheck(cs.order, cs.time)]
  /\ UNCHANGED <<pfVars, config, mutexLocked, processingMint, buyOrders,
                 sellOrders, buy, sell, openPosition, now, pa,
                 listener, rf>>

\* checkSell runs once more on the same quote value at the same time, on
\* the position as the first evaluation left it
CheckSellAgain ==
  /\ cs.pc = "done"
  /\ cs' = [cs EXCEPT !.pc = "again",
                       !.again = CheckSellReason(cs.cfg, cs.order, cs.value, cs.time),
                       !.order = OrderAfterCheck(cs.order, cs.time)]
  /\ UNCHANGED <<pfVars, config, mutexLocked, processingMint, buyOrders,
                 sellOrders, buy, sell, openPosition, now, pa,
                 listener, rf>>

CheckSellNext ==
  \/ CheckSell
  \/ CheckSellAgain

CheckSellSpec == CheckSellInit /\ [][CheckSellNext]_vars

\* The PNL decision of checkSell on cost bases that do not divide the
\* scaled difference: only take profit and stop loss are enabled.
PnlConfigs ==
  {[DefaultConfig EXCEPT !.takeProfitPercentage = tp, !.stopLossPercentage = sl] :
     tp \in {0, 1, 33, 34, 100}, sl \in {0, 1, 33, 34, 100}}

PnlCosts == {1, 3, 7, 100, 201}

PnlValues == (0..8) \cup {14, 99, 100, 101, 198, 199, 200, 201, 202, 203, 402}

PnlInit ==
  /\ filters = MkFilters({4}, [i \in 1..Len(FilterNames) |-> "pass"])
  /\ config = DefaultConfig
  /\ BotIdle
  /\ PFIdle
  /\ cs \in {[CSIdle EXCEPT !.pc = "called", !.cfg = c,
                             !.order = [BuyOrderDetails(1, Absent) EXCEPT
                                          !.quoteAmountUsed = cost],
                             !.value = v, !.time = StartTime] :
               c \in PnlConfigs, cost \in PnlCosts, v \in PnlValues}
  /\ pa = PAIdle
  /\ listener = ListenerIdle
  /\ rf = RFIdle

PnlSpec == PnlInit /\ [][CheckSellNext]_vars

\* The pool-age filter on the pool keys Bot.buy builds from a fetched pool
\* info, with and without an open timestamp.
PoolAgeInit ==
  /\ filters = MkFilters({6}, [i \in 1..Len(FilterNames) |-> "pass"])
  /\ config = DefaultConfig
  /\ BotIdle
  /\ PFIdle
  /\ cs = CSIdle
  /\ pa \in {[PAIdle EXCEPT !.pc = "called", !.fetched = f, !.time = t,
                             !.maxAge = a] :
               f \in {NoOpenTime} \cup (0..(StartTime + MaxHold)),
               t \in StartTime..(StartTime + MaxHold),
               a \in 1..MaxHold}
  /\ listener = ListenerIdle
  /\ rf = RFIdle

\* Bot.buy builds poolKeys (lines 249-252) and the filter runs on them
PoolAgeCheck ==
  /\ pa.pc = "called"
  /\ pa' = [pa EXCEPT !.pc = "done",
                       !.result = MaxPoolAgeExecute(PoolKeysOpenTime(pa.fetched),
                                                    pa.time, pa.maxAge)]
  /\ UNCHANGED <<pfVars, config, mutexLocked, processingMint, buyOrders,
                 sellOrders, buy, sell, openPosition, now, cs,
                 listener, rf>>

PoolAgeSpec == PoolAgeInit /\ [][PoolAgeCheck]_vars

\* The authority filter on drawn inputs: the two settings of the filter,
\* poolKeys.baseMint and the outcome of fetching and decoding its mint
\* account.
AuthorityInit ==
  /\ filters = <<>>
  /\ PFIdle
  /\ config = DefaultConfig
  /\ BotIdle
  /\ cs = CSIdle
  /\ pa = PAIdle
  /\ listener = ListenerIdle
  /\ rf \in {[RFIdle EXCEPT !.pc = "called", !.checkRenounced = r,
                             !.checkFreezable = f, !.mint = m,
                             !.account = a] :
               r \in BOOLEAN, f \in BOOLEAN, m \in Mints,
               a \in MintAccounts}

\* PoolFilters.execute awaits the filter's execute
AuthorityCheck ==
  /\ rf.pc = "called"
  /\ rf' = [rf EXCEPT !.pc = "done",
                       !.result = RenouncedFreezeExecute(rf.checkRenounced,
                                                         rf.checkFreezable,
                                                         rf.account)]
  /\ UNCHANGED <<pfVars, config, mutexLocked, processingMint, buyOrders,
                 sellOrders, buy, sell, openPosition, now, cs, pa, listener>>

AuthoritySpec == AuthorityInit /\ [][AuthorityCheck]_vars

\* Positions held over time: one acquisition and one disposal workflow and
\* the clock. External calls return (weak fairness of the workflow steps);
\* pool and wallet events are up to the environment.
Tick ==
  /\ now < StartTime + MaxHold
  /\ now' = now + 1
  /\ UNCHANGED <<pfVars, config, mutexLocked, processingMint, buyOrders,
                 sellOrders, buy, sell, openPosition, cs, pa,
                 listener, rf>>

HoldInit ==
  /\ filters = MkFilters({4, 5}, [i \in 1..Len(FilterNames) |-> "pass"])
  /\ config = [DefaultConfig EXCEPT !.oneTokenAtATime = TRUE,
                                    !.maxBuyRetries = 1, !.maxSellRetries = 1,
                                    !.stopLossPercentage = 20,
                                    !.maxSellDurationSeconds = MaxHold - 1]
  /\ BotIdle
  /\ PFIdle
  /\ cs = CSIdle
  /\ pa = PAIdle
  /\ listener = ListenerIdle
  /\ rf = RFIdle

BuyReturns(p) ==
  \/ BuyFetchInfo(p)
  \/ BuyAcquired(p)
  \/ BuyMarketLoad(p)
  \/ BuyFetchMetadata(p)
  \/ BuyExecFetch(p)
  \/ BuyFilters(p)
  \/ BuyAta(p)
  \/ BuySimulate(p)
  \/ BuyBlockhash(p)
  \/ BuySwap(p)
  \/ BuySleep(p)

SellReturns(q) ==
  \/ SellGetAccount(q)
  \/ SellPoolGet(q)
  \/ SellMarketLoad(q)
  \/ SellCheck(q)
  \/ SellBlockhash(q)
  \/ SellSwap(q)
  \/ SellSleep(q)

HoldNext ==
  \/ BuyStep(1)
  \/ SellStep(1)
  \/ Tick

HoldSpec ==
  /\ HoldInit
  /\ [][HoldNext]_vars
  /\ WF_vars(BuyReturns(1))
  /\ WF_vars(SellReturns(1))
  /\ WF_vars(Tick)

\* The pool listener of index.ts. Handler k runs its Bot.buy call in
\* invocation slot k.
\* listeners.on('pool', ...): the event of a pool of base mint m that opened
\* at time open; const exists = await poolCache.get(baseMint) is called
PoolEvent(k) ==
  /\ listener.h[k].pc = "idle"
  /\ buy[k].pc \in {"idle", "returned"}
  /\ \E m \in Mints, open \in (RunTimestamp - 1)..(RunTimestamp + 1) :
       listener' = [listener EXCEPT !.h[k] =
                      [pc |-> "get", mint |-> m, open |-> open,
                       exists |-> m \in listener.cache]]
  /\ UNCHANGED <<pfVars, config, mutexLocked, processingMint, buyOrders,
                 sellOrders, buy, sell, openPosition, now, cs, pa, rf>>

\* the await resolves: the guard, poolCache.save and the call of bot.buy,
\* which runs up to its first await
PoolHandle(k) ==
  /\ listener.h[k].pc = "get"
  /\ IF PoolEventBuys(listener.h[k].exists, listener.h[k].open)
     THEN /\ listener' = [listener EXCEPT
                            !.cache = @ \cup {listener.h[k].mint},
                            !.h[k].pc = "buy"]
          /\ BuyCall(k)
          /\ UNCHANGED <<pfVars, config, mutexLocked, processingMint, buyOrders,
                         sellOrders, sell, openPosition, now, cs, pa, rf>>
     ELSE /\ listener' = [listener EXCEPT !.h[k] = HandlerIdle]
          /\ UNCHANGED <<pfVars, config, mutexLocked, processingMint, buyOrders,
                         sellOrders, buy, sell, openPosition, now, cs, pa, rf>>

\* await bot.buy(...) resolves and the handler returns
PoolHandled(k) ==
  /\ listener.h[k].pc = "buy"
  /\ buy[k].pc = "returned"
  /\ listener' = [listener EXCEPT !.h[k] = HandlerIdle]
  /\ UNCHANGED <<pfVars, config, mutexLocked, processingMint, buyOrders,
                 sellOrders, buy, sell, openPosition, now, cs, pa, rf>>

ListenerInit ==
  /\ filters = MkFilters({4, 5}, [i \in 1..Len(FilterNames) |-> "pass"])
  /\ config = [DefaultConfig EXCEPT !.oneTokenAtATime = TRUE,
                                    !.maxBuyRetries = 1, !.maxSellRetries = 1]
  /\ BotIdle
  /\ PFIdle
  /\ cs = CSIdle
  /\ pa = PAIdle
  /\ listener = ListenerIdle
  /\ rf = RFIdle

ListenerNext ==
  \E k \in BuySlots :
    \/ PoolEvent(k)
    \/ PoolHandle(k)
    \/ PoolHandled(k)
    \/ BuyReturns(k)

ListenerSpec == ListenerInit /\ [][ListenerNext]_vars

\* Concurrent acquisitions and a disposal whose external calls all return
\* or throw: weak fairness of the steps of every started invocation; pool
\* and wallet events are up to the environment.
LiveInit ==
  /\ filters = MkFilters({4, 5}, [i \in 1..Len(FilterNames) |-> "pass"])
  /\ config = [DefaultConfig EXCEPT !.oneTokenAtATime = TRUE,
                                    !.useSnipeList = TRUE,
                                    !.maxBuyRetries = 1, !.maxSellRetries = 1]
  /\ BotIdle
  /\ PFIdle
  /\ cs = CSIdle
  /\ pa = PAIdle
  /\ listener = ListenerIdle
  /\ rf = RFIdle

LiveNext ==
  \/ \E p \in BuySlots : BuyStep(p)
  \/ SellStep(1)

LiveSpec ==
  /\ LiveInit
  /\ [][LiveNext]_vars
  /\ \A p \in BuySlots : WF_vars(BuyReturns(p))
  /\ WF_vars(SellReturns(1))

(***************************************************************************)
(* Claims                                                                  *)
(***************************************************************************)
\* the invocation in slot p is between its mutex.acquire() and the end of
\* its finally block
InPostLock(p) == buy[p].acq /\ buy[p].pc \notin {"idle", "returned"}

\* C1: with oneTokenAtATime enabled, at most one Bot.buy invocation at a
\* time is in its post-lock phase (between mutex.acquire and the end of its
\* finally block), for every interleaving of buy invocations.
C1_AtMostOneInPostLock ==
  config.oneTokenAtATime =>
    Cardinality({p \in BuySlots : InPostLock(p)}) <= 1

\* C2: with oneTokenAtATime enabled, the mutex stays locked for an
\* invocation from its acquire until its own release, and an invocation
\* that acquired the mutex has released it exactly once when it returns.
C2_HeldThroughoutReleasedOnce ==
  config.oneTokenAtATime =>
    \A p \in BuySlots :
      /\ InPostLock(p) => mutexLocked
      /\ (buy[p].pc = "returned" /\ buy[p].acq) => buy[p].rel = 1

\* the invocation in slot q is past the sellOrders[mint] guard check
PastGuard(q) == sell[q].set /\ sell[q].pc \notin {"idle", "returned"}

\* C3: for every asset, at most one Bot.sell invocation at a time is past
\* the sellOrders[mint] guard check.
C3_AtMostOneSellPerMint ==
  \A m \in Mints :
    Cardinality({q \in SellSlots : PastGuard(q) /\ sell[q].mint = m}) <= 1

\* C4: in the step in which the Bot.sell invocation that set
\* sellOrders[mint] returns, sellOrders[mint] is unset, whatever the outcome.
C4_FlagClearAtReturn ==
  [][\A q \in SellSlots :
       (sell[q].pc # "returned" /\ sell'[q].pc = "returned" /\ sell'[q].set)
         => ~sellOrders'[sell'[q].mint]]_vars

\* C4 witness: an invocation that set the flag ran out of retries and has
\* returned, and the flag of its mint is clear.
C4_Witness ==
  \E q \in SellSlots :
    /\ sell[q].pc = "returned"
    /\ sell[q].set
    /\ sell[q].out = "failed"
    /\ ~sellOrders[sell[q].mint]

\* C5: for every asset, buyOrders[mint] exists if and only if a buy
\* submission for the mint was confirmed and no sell submission for it has
\* been confirmed since.
C5_PositionIffOpen ==
  \A m \in Mints : (buyOrders[m] # NoOrder) <=> openPosition[m]

\* the configured filters as they behave on the metadata execute hands them
Invoked == [i \in 1..Len(filters) |-> OnMetadata(filters[i], pfInternal)]

\* the filters whose invocation does not resolve ok = true
NonPassing(fs) == {i \in 1..Len(fs) : fs[i].outcome # "pass"}
FirstNonPassing(fs) == CHOOSE i \in NonPassing(fs) : \A j \in NonPassing(fs) : i <= j
\* the FilterResult of a failing filter: its own, or for a filter that
\* faulted the failure that stands for it
FailureOf(f) == IF f.outcome = "fail" THEN OwnFailResult(f) ELSE FaultResult(f)

\* C6: execute returns exactly the FilterResult of the first failing filter
\* in configured order (a faulting filter counts as failing), and
\* { ok: true } when every filter passes or none is configured.
C6_FirstFailingResult ==
  pfPc \in {"returned", "done"} =>
    pfResult = IF NonPassing(Invoked) = {} THEN PassResult
               ELSE FailureOf(Invoked[FirstNonPassing(Invoked)])

\* C6 witness: three filters, the second and the third fail, and the call
\* returned the second filter's own result.
C6_Witness ==
  /\ pfPc = "done"
  /\ Len(filters) = 3
  /\ filters[1].outcome = "pass"
  /\ filters[2].outcome = "fail"
  /\ filters[3].outcome = "fail"
  /\ pfResult = OwnFailResult(filters[2])

\* the filter invocations of the call, in the order they were made
FilterCalls == SelectSeq(pfLog, LAMBDA e : e.ev = "filter")

\* C7: filters are invoked strictly in configured order, and no filter
\* after the first failing or faulting filter is invoked.
C7_InOrderShortCircuit ==
  /\ \A k \in 1..Len(FilterCalls) : FilterCalls[k].idx = k
  /\ \A k \in 1..(Len(FilterCalls) - 1) :
       Invoked[FilterCalls[k].idx].outcome = "pass"

\* C7 witness: the second of three filters faulted and the call ended
\* after two invocations.
C7_Witness ==
  /\ pfPc = "done"
  /\ Len(filters) = 3
  /\ filters[1].outcome = "pass"
  /\ filters[2].outcome = "throw"
  /\ Len(FilterCalls) = 2

\* the call reached a filter that throws
FaultReached ==
  /\ NonPassing(Invoked) # {}
  /\ Invoked[FirstNonPassing(Invoked)].outcome = "throw"

\* C8: when a filter throws, execute does not throw: it returns ok = false
\* with a message naming the faulting filter, and Bot.buy treats it as a
\* filter rejection.
C8_FaultIsRejection ==
  /\ pfPc # "threw"
  /\ (pfPc \in {"returned", "done"} /\ FaultReached) =>
       /\ ~pfResult.ok
       /\ pfResult.message = <<"Error in", filters[FirstNonPassing(filters)].name>>
  /\ (pfPc = "done" /\ FaultReached) => pfGate = "rejected"

\* C8 witness: a filter threw and the caller rejected the pool.
C8_Witness ==
  /\ pfPc = "done"
  /\ FaultReached
  /\ pfGate = "rejected"
  /\ pfResult.message = <<"Error in", filters[FirstNonPassing(filters)].name>>

\* the fetchMetadata calls of the call
FetchCalls == SelectSeq(pfLog, LAMBDA e : e.ev = "fetchMetadata")

\* C9: one execute call invokes fetchMetadata at most once, and not at all
\* when no configured filter requires metadata or the caller supplied a
\* snapshot.
C9_FetchAtMostOnce ==
  /\ Len(FetchCalls) <= 1
  /\ (pfPc # "idle" /\ (~NeedsMetadata(filters) \/ pfArg = Present)) =>
       Len(FetchCalls) = 0

\* C9 witness: two configured filters require metadata, none was supplied,
\* and the call is over after one fetch.
C9_Witness ==
  /\ pfPc = "done"
  /\ Cardinality({i \in 1..Len(filters) : filters[i].requiresMetadata}) >= 2
  /\ pfArg = Absent
  /\ Len(FetchCalls) = 1

\* C10: within one Bot.buy invocation the metadata provider is called at
\* most once for the filter gate, also when the fetch returns an absent
\* snapshot.
C10_OneFetchPerAttempt ==
  \A p \in BuySlots : buy[p].fetches <= 1

\* the values of a sequence
Range(seq) == {seq[i] : i \in 1..Len(seq)}
\* the positions of a retry loop
InLoop(rec) == rec.pc \in {"blockhash", "swap", "sleep"}

\* C11: in a buy retry loop with maxBuyRetries = N at most N submissions
\* are made; a confirmed result ends the invocation in the same step; the
\* invocation ends failed only after iteration N - 1, without touching the
\* positions; with N = 0 the loop is never entered and nothing is submitted.
C11_BuyRetryLoop ==
  /\ [](\A p \in BuySlots :
          /\ Len(buy[p].sent) <= config.maxBuyRetries
          /\ InLoop(buy[p]) => buy[p].try < config.maxBuyRetries
          /\ config.maxBuyRetries = 0 => ~InLoop(buy[p]) /\ buy[p].sent = <<>>)
  /\ [][\A p \in BuySlots :
          /\ (buy[p].pc = "swap" /\ ~openPosition[buy[p].mint]
                 /\ openPosition'[buy[p].mint])
               => buy'[p].pc = "returned" /\ buy'[p].out = "confirmed"
          /\ (buy[p].pc # "returned" /\ buy'[p].pc = "returned"
                 /\ buy'[p].out = "failed")
               => /\ buyOrders' = buyOrders
                  /\ openPosition' = openPosition
                  /\ \/ config.maxBuyRetries = 0
                     \/ buy[p].try = config.maxBuyRetries - 1]_vars

\* C11 witness: every one of the MaxBuyRetries attempts made a submission
\* and the last one threw.
C11_Witness ==
  \E p \in BuySlots :
    /\ config.maxBuyRetries = MaxBuyRetries
    /\ buy[p].pc = "sleep"
    /\ Len(buy[p].sent) = MaxBuyRetries

\* the submissions of an invocation use pairwise distinct blockhashes and
\* the one about to be used was fetched in the current iteration
FreshPerSubmission(rec) ==
  /\ \A i, j \in 1..Len(rec.sent) : i # j => rec.sent[i] # rec.sent[j]
  /\ NoBlockhash \notin Range(rec.sent)
  /\ rec.pc = "swap" => rec.bh # NoBlockhash /\ rec.bh \notin Range(rec.sent)
  /\ rec.pc = "blockhash" => rec.bh = NoBlockhash

\* C12: in the buy and in the sell retry loop every submission uses a
\* blockhash fetched in its own iteration, and no blockhash is used by two
\* submissions.
C12_FreshBlockhashPerSubmission ==
  /\ \A p \in BuySlots : FreshPerSubmission(buy[p])
  /\ \A q \in SellSlots : FreshPerSubmission(sell[q])

\* C12 witness: a disposal is about to make its second submission.
C12_Witness ==
  \E q \in SellSlots :
    /\ sell[q].pc = "swap"
    /\ Len(sell[q].sent) = 1
    /\ sell[q].try = 1

\* the evaluation was made on an open position with a non-zero cost basis
CheckedPosition == cs.pc = "done" /\ cs.order # NoOrder /\ cs.order.quoteAmountUsed # 0
\* the holding time of the evaluated position
Elapsed == cs.time - cs.order.buyTimestamp
\* pnlPercent >= takeProfitPercentage, threshold enabled
TakeProfitHit ==
  /\ cs.cfg.takeProfitPercentage > 0
  /\ (cs.value - cs.order.quoteAmountUsed) * 100
       >= cs.cfg.takeProfitPercentage * cs.order.quoteAmountUsed
\* pnlPercent <= -stopLossPercentage, threshold enabled
StopLossHit ==
  /\ cs.cfg.stopLossPercentage > 0
  /\ (cs.order.quoteAmountUsed - cs.value) * 100
       >= cs.cfg.stopLossPercentage * cs.order.quoteAmountUsed
\* the position was held for maxSellDurationSeconds, limit enabled
MaxDurationHit ==
  cs.cfg.maxSellDurationSeconds > 0 /\ Elapsed >= cs.cfg.maxSellDurationSeconds
\* the recorded name contains a configured keyword, whatever the case, and
\* the position was held for sellTimedNameDurationSeconds
TimedKeywordHit ==
  /\ cs.cfg.sellTimedNameDurationSeconds > 0
  /\ Elapsed >= cs.cfg.sellTimedNameDurationSeconds
  /\ \E k \in 1..Len(cs.cfg.sellTimedNameKeywords) :
       /\ Len(cs.cfg.sellTimedNameKeywords[k]) > 0
       /\ Includes(ToLower(cs.order.tokenName), ToLower(cs.cfg.sellTimedNameKeywords[k]))

\* C13: whenever takeProfitPercentage > 0 and the PNL reaches it, the exit
\* reason of checkSell is take_profit, whatever the holding time and the
\* other thresholds.
C13_TakeProfitFirst ==
  (CheckedPosition /\ TakeProfitHit) => cs.reason = "take_profit"

\* C13 witness: take profit is decided although the maximum holding time
\* has passed and the stop loss is enabled.
C13_Witness ==
  /\ CheckedPosition /\ TakeProfitHit /\ MaxDurationHit
  /\ cs.cfg.stopLossPercentage > 0
  /\ cs.reason = "take_profit"

\* C14: the exit criteria are evaluated in the order take profit, stop
\* loss, maximum holding time, timed keyword, and the first that matches
\* wins; in particular, when the first three do not match and the timed
\* keyword criterion does, the reason is timed_keyword_match and a sell is
\* initiated.
C14_FirstMatchWins ==
  CheckedPosition =>
    /\ TakeProfitHit => cs.reason = "take_profit"
    /\ (~TakeProfitHit /\ StopLossHit) => cs.reason = "stop_loss"
    /\ (~TakeProfitHit /\ ~StopLossHit /\ MaxDurationHit)
         => cs.reason = "max_duration_reached"
    /\ (~TakeProfitHit /\ ~StopLossHit /\ ~MaxDurationHit /\ TimedKeywordHit)
         => cs.reason = "timed_keyword_match" /\ cs.initiated

\* C15: when neither take profit nor stop loss holds, maxSellDurationSeconds
\* > 0 and the holding time has reached it, the exit reason is
\* max_duration_reached.
C15_MaxDuration ==
  (CheckedPosition /\ ~TakeProfitHit /\ ~StopLossHit /\ MaxDurationHit)
    => cs.reason = "max_duration_reached"

\* C15 witness: the maximum holding time decides although the timed
\* keyword criterion matches as well.
C15_Witness ==
  /\ CheckedPosition /\ ~TakeProfitHit /\ ~StopLossHit
  /\ MaxDurationHit /\ TimedKeywordHit
  /\ Elapsed > cs.cfg.maxSellDurationSeconds
  /\ cs.reason = "max_duration_reached"

\* C17: checkSell determines no exit reason and initiates no sell when the
\* asset has no buyOrders entry or its recorded cost basis is zero, and
\* sellOrder is entered only when an exit reason was determined.
C17_NoPositionNoSell ==
  cs.pc = "done" =>
    /\ (cs.order = NoOrder \/ cs.order.quoteAmountUsed = 0)
         => cs.reason = NoReason /\ ~cs.initiated
    /\ cs.initiated => cs.reason # NoReason

\* C17 witness: a position with a zero cost basis is not sold although its
\* holding time has passed the limit.
C17_Witness ==
  /\ cs.pc = "done"
  /\ cs.order # NoOrder /\ cs.order.quoteAmountUsed = 0
  /\ MaxDurationHit
  /\ cs.reason = NoReason /\ ~cs.initiated

\* a position on m whose holding time has reached the configured limit
HeldTooLong(m) ==
  /\ config.maxSellDurationSeconds > 0
  /\ buyOrders[m] # NoOrder
  /\ now - buyOrders[m].buyTimestamp >= config.maxSellDurationSeconds

\* sellOrder is running for m, or the position on m is closed
InDisposal(m) ==
  \/ buyOrders[m] = NoOrder
  \/ \E q \in SellSlots : /\ sell[q].mint = m
                          /\ sell[q].reason # NoReason
                          /\ InLoop(sell[q])

\* C16: every position held for at least maxSellDurationSeconds (when > 0)
\* is eventually handed to sellOrder, whatever its PNL, as long as external
\* calls return; no further wallet event is assumed.
C16_HeldPositionEventuallySold ==
  \A m \in Mints : HeldTooLong(m) ~> InDisposal(m)

\* the step in which workflow record old ends as new with outcome out
EndsWith(old, new, out) ==
  /\ old.pc \notin {"idle", "returned"}
  /\ new.pc = "returned"
  /\ new.out = out

\* C18: the step that ends a sell without confirmation leaves buyOrders as
\* it is and clears sellOrders[mint] and no other flag; the step that ends a
\* buy without confirmation leaves buyOrders as it is; and buyOrders changes
\* in no step other than the one that ends a buy or a sell as confirmed, so
\* no attempt of a failed loop touched it.
C18_FailureLeavesPosition ==
  [][/\ \A q \in SellSlots :
          EndsWith(sell[q], sell'[q], "failed") =>
            /\ buyOrders' = buyOrders
            /\ sellOrders' = [sellOrders EXCEPT ![sell'[q].mint] = FALSE]
     /\ \A p \in BuySlots :
          EndsWith(buy[p], buy'[p], "failed") => buyOrders' = buyOrders
     /\ buyOrders' # buyOrders =>
          \/ \E p \in BuySlots : EndsWith(buy[p], buy'[p], "confirmed")
          \/ \E q \in SellSlots : EndsWith(sell[q], sell'[q], "confirmed")]_vars

\* C18 witness: a sell ended unconfirmed after its retries; the position is
\* still recorded and the in-flight flag of the mint is clear.
C18_Witness ==
  \E q \in SellSlots :
    /\ sell[q].pc = "returned" /\ sell[q].out = "failed"
    /\ config.maxSellRetries > 0
    /\ buyOrders[sell[q].mint] # NoOrder
    /\ ~sellOrders[sell[q].mint]
    /\ \E p \in BuySlots : buy[p].pc = "returned" /\ buy[p].out = "failed"

\* the outcomes of an invocation that ended in a catch block
FaultOutcomes == {"resolveFailed", "error", "checkError"}

\* C19: buy and sell never end by throwing to their caller: whatever call
\* rejected, the invocation returns; a buy that acquired the mutex has
\* released it and removed its mint from processingMint when it has
\* returned, and a sell that set the in-flight flag has cleared it.
C19_NoExceptionEscapes ==
  /\ \A p \in BuySlots :
       /\ buy[p].pc # "threw"
       /\ (buy[p].pc = "returned" /\ buy[p].acq) =>
            /\ buy[p].rel = 1
            /\ ~mutexLocked
            /\ buy[p].mint \notin processingMint
  /\ \A q \in SellSlots :
       /\ sell[q].pc # "threw"
       /\ (sell[q].pc = "returned" /\ sell[q].set) => ~sellOrders[sell[q].mint]

\* C19 witness: a buy that held the mutex and a sell that had set its flag
\* have both ended in a catch block and returned with their cleanup done.
C19_Witness ==
  /\ \E p \in BuySlots :
       /\ buy[p].pc = "returned" /\ buy[p].out \in FaultOutcomes
       /\ buy[p].acq /\ buy[p].rel = 1 /\ ~mutexLocked
  /\ \E q \in SellSlots :
       /\ sell[q].pc = "returned" /\ sell[q].out \in FaultOutcomes
       /\ sell[q].set /\ ~sellOrders[sell[q].mint]

\* C20: a buy invocation whose mint already had a buyOrders entry when the
\* pool was resolved is short-circuited whatever oneTokenAtATime is: it
\* never reaches the filter evaluation nor the swap submission (after which
\* a confirmed result would overwrite the entry).
C20_OpenPositionShortCircuits ==
  \A p \in BuySlots :
    buy[p].dup => buy[p].pc \notin {"filters", "swap"}

\* C21: with oneTokenAtATime, the step in which a buy that found the mutex
\* held returns changes neither the mutex nor processingMint nor buyOrders,
\* also when its base mint is the one of the invocation holding the mutex.
C21_SkippedLockedNoEffect ==
  [][\A p \in BuySlots :
       EndsWith(buy[p], buy'[p], "skippedLocked") =>
         /\ mutexLocked' = mutexLocked
         /\ processingMint' = processingMint
         /\ buyOrders' = buyOrders]_vars

\* the positions of buy from the metadata prefetch on
PastSnipeCheck ==
  {"fetchMetadata", "execFetch", "filters", "ata", "simulate", "blockhash",
   "swap", "sleep"}

\* C22: with useSnipeList, a buy for a mint that is not in the snipe list
\* never reaches the metadata fetch, the filters or the swap; it ends at
\* the snipe list check (or earlier), and the step that ends it there
\* creates no buyOrders entry and releases the mutex it had acquired.
C22_NotListedNotBought ==
  /\ [](\A p \in BuySlots :
          (config.useSnipeList /\ buy[p].mint \in Mints \ SnipeList) =>
            /\ buy[p].pc \notin PastSnipeCheck
            /\ buy[p].fetches = 0
            /\ buy[p].sent = <<>>)
  /\ [][\A p \in BuySlots :
          EndsWith(buy[p], buy'[p], "notInSnipeList") =>
            /\ buy'[p].mint \notin SnipeList
            /\ buyOrders' = buyOrders
            /\ buy[p].acq =>
                 /\ buy'[p].rel = 1
                 /\ ~mutexLocked'
                 /\ buy'[p].mint \notin processingMint']_vars

\* C22 witness: a buy that held the mutex has ended at the snipe list check
\* and the mutex is free again.
C22_Witness ==
  \E p \in BuySlots :
    /\ buy[p].pc = "returned" /\ buy[p].out = "notInSnipeList"
    /\ buy[p].acq /\ buy[p].rel = 1 /\ ~mutexLocked
    /\ buyOrders[buy[p].mint] = NoOrder

\* C23: with useSnipeList the filters are disabled: no buy for a listed
\* mint (one that passed the snipe list check) ends because of a filter
\* result.
C23_SnipeListDisablesFilters ==
  \A p \in BuySlots :
    config.useSnipeList => ~(buy[p].pc = "returned" /\ buy[p].out = "filtered")

\* the positions of buy from the token account creation on
PastAutoBuyCheck == {"ata", "simulate", "blockhash", "swap", "sleep"}

\* C24: with autoBuy = false no buy reaches the token account creation, the
\* simulation or the swap, nothing is submitted and no buyOrders entry
\* exists, whatever the pool and the filter results.
C24_MonitorOnlyBuysNothing ==
  ~config.autoBuy =>
    /\ \A p \in BuySlots :
         /\ buy[p].pc \notin PastAutoBuyCheck
         /\ buy[p].sent = <<>>
         /\ buy[p].out # "confirmed"
    /\ \A m \in Mints : buyOrders[m] = NoOrder

\* C24 witness: in monitor-only mode the filters were evaluated and passed,
\* and the buy ended at the AUTO_BUY check.
C24_Witness ==
  /\ ~config.autoBuy
  /\ \E i \in 1..Len(filters) : filters[i].outcome = "pass"
  /\ \E p \in BuySlots : buy[p].pc = "returned" /\ buy[p].out = "monitorOnly"

\* the entry a confirmed buy of record b is to leave: the time of the
\* confirmation, the configured quote amount, the minimum output of the
\* simulation and the fetched name and symbol
ExpectedPosition(b) ==
  [mint |-> b.mint,
   buyTimestamp |-> now,
   quoteAmountUsed |-> config.quoteAmount,
   minBaseTokenAmountReceived |-> SimulateSwap(b.mint).minAmountOut,
   tokenName |-> IF b.meta = Present THEN MetadataName(b.mint) ELSE NoName,
   tokenSymbol |-> IF b.meta = Present THEN MetadataSymbol(b.mint) ELSE NoName]

\* the step in which a buy is confirmed records the position of its mint
\* and touches no other entry
ConfirmedBuyOpensPosition ==
  \A p \in BuySlots :
    EndsWith(buy[p], buy'[p], "confirmed") =>
      /\ buyOrders'[buy[p].mint] = ExpectedPosition(buy[p])
      /\ \A m \in Mints \ {buy[p].mint} : buyOrders'[m] = buyOrders[m]

\* the step in which a sell transaction is confirmed removes the position
ConfirmedSellClosesPosition ==
  \A m \in Mints :
    (openPosition[m] /\ ~openPosition'[m]) => buyOrders'[m] = NoOrder

\* C25: a confirmed buy opens exactly the position of its base mint, with
\* the buy timestamp, the configured quote amount as cost basis, the
\* simulation's slippage-adjusted minimum output and the fetched name and
\* symbol; a confirmed sell removes the position of its mint.
C25_PositionBookkeeping ==
  [][ConfirmedBuyOpensPosition /\ ConfirmedSellClosesPosition]_vars

\* C26: the step in which a sell that found sellOrders[mint] set returns
\* comes straight from the guard (no exit evaluation, no submission) and
\* leaves sellOrders and buyOrders as they are, so that the flag of the
\* sell in flight stays set.
C26_SkippedSellNoEffect ==
  [][\A q \in SellSlots :
       EndsWith(sell[q], sell'[q], "skipped") =>
         /\ sell[q].pc = "getAccount"
         /\ sellOrders' = sellOrders
         /\ sellOrders'[sell'[q].mint]
         /\ buyOrders' = buyOrders]_vars

\* only the name / symbol blocklist filter is configured
OnlyNameSymbolFilter ==
  /\ Len(filters) = 1
  /\ filters[1].name = "NameSymbolFilter"

ExactTakeProfit ==
  (cs.value - cs.order.quoteAmountUsed) * 100
    >= cs.cfg.takeProfitPercentage * cs.order.quoteAmountUsed
ExactStopLoss ==
  (cs.order.quoteAmountUsed - cs.value) * 100
    >= cs.cfg.stopLossPercentage * cs.order.quoteAmountUsed

\* C29: for a cost basis > 0, a value >= 0 and integer thresholds, the
\* decision taken on the truncated PNL is the exact one: take profit (when
\* enabled) is the reason iff (value - cost) * 100 >= takeProfit * cost, and
\* stop loss (when enabled) iff (cost - value) * 100 >= stopLoss * cost.
C29_PnlDecisionExact ==
  (cs.pc = "done" /\ cs.order.quoteAmountUsed > 0) =>
    /\ cs.cfg.takeProfitPercentage > 0 =>
         (cs.reason = "take_profit" <=> ExactTakeProfit)
    /\ cs.cfg.stopLossPercentage > 0 =>
         (cs.reason = "stop_loss" <=> ExactStopLoss)

\* C29 witness: cost 201 and value 199 give a PNL of -0.995 %, truncated to
\* -0.99 %, and the 1 % stop loss does not fire.
C29_Witness ==
  /\ cs.pc = "done"
  /\ cs.order.quoteAmountUsed = 201 /\ cs.value = 199
  /\ cs.cfg.stopLossPercentage = 1
  /\ PnlBps(cs.value, cs.order.quoteAmountUsed) = -99
  /\ cs.reason = NoReason

\* C30: the pool-age filter fails exactly when the time since the pool's
\* open timestamp exceeds the maximum age, and passes when the fetched pool
\* info carries no open timestamp.
C30_PoolAgeFilter ==
  pa.pc = "done" =>
    (pa.result = "fail" <=>
       (pa.fetched # NoOpenTime /\ pa.time - pa.fetched > pa.maxAge))

\* C31: the step in which a buy ends because its pool could not be resolved
\* comes straight from the pool fetch (no retry, no filter, no submission)
\* and leaves buyOrders, processingMint and the mutex as they were, also
\* while another buy invocation holds the mutex.
C31_ResolveFailureNoEffect ==
  [][\A p \in BuySlots :
       EndsWith(buy[p], buy'[p], "resolveFailed") =>
         /\ buy[p].pc = "fetchInfo"
         /\ buyOrders' = buyOrders
         /\ processingMint' = processingMint
         /\ mutexLocked' = mutexLocked]_vars

\* C32: a buy that is abandoned, because the filter pipeline returned
\* ok = false or because the simulated output exceeds a non-zero
\* maxPoolSize, fetches no blockhash, submits nothing and opens no position:
\* no invocation goes on after either condition (ok is false once one of
\* them was seen), and the step that abandons it comes from the filter gate
\* or the simulation and leaves buyOrders as it is.
C32_AbandonedBuysNothing ==
  /\ [](\A p \in BuySlots :
          buy[p].pc \in PastAutoBuyCheck => buy[p].ok)
  /\ [][\A p \in BuySlots :
          (\/ EndsWith(buy[p], buy'[p], "filtered")
           \/ EndsWith(buy[p], buy'[p], "abandoned")) =>
            /\ buy[p].pc \in {"filters", "simulate"}
            /\ buy[p].bh = NoBlockhash
            /\ buy[p].sent = <<>>
            /\ buyOrders' = buyOrders]_vars

\* C32 witness: a buy that passed the filters was abandoned at the pool
\* size cap and no position exists for its mint.
C32_Witness ==
  \E p \in BuySlots :
    /\ buy[p].pc = "returned" /\ buy[p].out = "abandoned"
    /\ config.autoBuy
    /\ buyOrders[buy[p].mint] = NoOrder

\* C33: a pool event handler calls Bot.buy only when its cache lookup found
\* no pool for the base mint and the pool opened strictly after the bot's
\* start timestamp, and the pool is in the cache from the call on; a pool
\* that opened at or before the start never gets a buy.
C33_PoolEventGuard ==
  \A k \in BuySlots :
    listener.h[k].pc = "buy" =>
      /\ ~listener.h[k].exists
      /\ listener.h[k].open > RunTimestamp
      /\ listener.h[k].mint \in listener.cache

\* C33 witness: the first event of a mint started a buy, and a later event
\* for the same mint, which found it in the cache, is about to be dropped.
C33_Witness ==
  \E k, j \in BuySlots :
    /\ listener.h[k].pc = "buy"
    /\ listener.h[j].pc = "get"
    /\ listener.h[j].mint = listener.h[k].mint
    /\ listener.h[j].exists
    /\ listener.h[j].open > RunTimestamp

\* C34: in the sell retry loop a result with confirmed = true ends the loop
\* and closes the position, with or without a signature: a step of the swap
\* in which the sale is confirmed on chain leaves the loop, and the position
\* is removed from buyOrders.
C34_ConfirmedSellEndsLoop ==
  [][\A q \in SellSlots :
       (/\ sell[q].pc = "swap"
        /\ openPosition[sell[q].mint]
        /\ ~openPosition'[sell[q].mint])
       => /\ sell'[q].pc \notin {"blockhash", "swap", "sleep"}
          /\ buyOrders'[sell[q].mint] = NoOrder]_vars

\* C35: when every external call returns or throws, every buy and every sell
\* invocation eventually returns, a held mutex is eventually released, and a
\* set sellOrders flag is eventually cleared: no invocation stays in flight
\* forever, the mutex does not stay locked forever and no flag stays set
\* forever.
C35_WorkflowsTerminate ==
  /\ \A p \in BuySlots : []<>(buy[p].pc \in {"idle", "returned"})
  /\ \A q \in SellSlots : []<>(sell[q].pc \in {"idle", "returned"})
  /\ []<>(~mutexLocked)
  /\ \A m \in Mints : []<>(~sellOrders[m])

\* C35 witness: two buys are in flight, one of them holding the mutex, while
\* a sell is in its retry loop with its flag set.
C35_Witness ==
  /\ mutexLocked
  /\ \A p \in BuySlots : buy[p].pc \notin {"idle", "returned"}
  /\ sell[1].pc = "swap"
  /\ sellOrders[sell[1].mint]

\* C36: an acquisition attempt that sent the acquisition-confirmed
\* notification never also sends the acquisition-failed notification.
C36_FailedAlertOnlyOnFailure ==
  \A p \in BuySlots :
    "confirmedBuy" \in buy[p].alerts => "buyFailed" \notin buy[p].alerts

\* C37: the step in which a sell returns because the account is the quote
\* token account or its balance is zero leaves sellOrders unchanged, so the
\* flag set by another sell of the same mint stays set.
C37_EarlyReturnKeepsFlags ==
  [][\A q \in SellSlots :
       (\/ EndsWith(sell[q], sell'[q], "quoteAccount")
        \/ EndsWith(sell[q], sell'[q], "zeroBalance"))
       => sellOrders' = sellOrders]_vars

\* C38: with oneTokenAtATime enabled the mutex is locked exactly when
\* processingMint is non-empty, processingMint holds at most one mint, and
\* that mint is the base mint of a buy in flight that acquired the mutex.
\* Stated for the states in which no buy is suspended between
\* mutex.acquire() and processingMint.add().
C38_MutexMatchesProcessingMint ==
  (config.oneTokenAtATime /\ \A p \in BuySlots : buy[p].pc # "acquire") =>
    /\ mutexLocked <=> processingMint # {}
    /\ Cardinality(processingMint) <= 1
    /\ \A m \in processingMint :
         \E p \in BuySlots :
           /\ buy[p].pc \notin {"idle", "returned"}
           /\ buy[p].acq
           /\ buy[p].mint = m

\* C39: no buy waits for the mutex: the step in which a buy calls
\* mutex.acquire() starts with the mutex free and ends with it locked, and a
\* buy that resolves its pool while the mutex is held returns in that step.
C39_NoBuyWaitsForMutex ==
  [][\A p \in BuySlots :
       /\ (buy[p].pc = "fetchInfo" /\ buy'[p].pc = "acquire")
            => (~mutexLocked /\ mutexLocked')
       /\ (/\ buy[p].pc = "fetchInfo"
           /\ buy'[p] # buy[p]
           /\ config.oneTokenAtATime
           /\ mutexLocked)
            => buy'[p].pc = "returned"]_vars

\* C39 witness: one buy has called acquire and holds the mutex while another,
\* which found the mutex held, has been skipped.
C39_Witness ==
  \E p, r \in BuySlots :
    /\ buy[p].pc = "acquire"
    /\ mutexLocked
    /\ buy[r].pc = "returned"
    /\ buy[r].out = "skippedLocked"

\* the decoded mint account has no mint authority / no freeze authority
MintAuthorityAbsent == rf.account.mintAuthorityOption = 0
FreezeAuthorityAbsent == rf.account.freezeAuthorityOption = 0

\* C40: the authority filter returns, never throws; on a fetched and decoded
\* mint account it passes exactly when (checkRenounced is off or the mint
\* authority is absent) and (checkFreezable is off or the freeze authority
\* is absent); when the account cannot be fetched or decoded it returns
\* ok = false.
C40_AuthorityFilter ==
  rf.pc = "done" =>
    /\ ~rf.result.threw
    /\ IF rf.account.fetch # "ok"
       THEN ~rf.result.ok
       ELSE rf.result.ok <=>
              /\ (~rf.checkRenounced \/ MintAuthorityAbsent)
              /\ (~rf.checkFreezable \/ FreezeAuthorityAbsent)

\* C40 witness: only the renounce requirement is on, the mint authority is
\* absent and a freeze authority exists, and the filter passed.
C40_Witness ==
  /\ rf.pc = "done"
  /\ rf.account.fetch = "ok"
  /\ rf.checkRenounced
  /\ ~rf.checkFreezable
  /\ MintAuthorityAbsent
  /\ ~FreezeAuthorityAbsent
  /\ rf.result.ok
====
